---- MODULE Spec2Model ----
(***************************************************************************)
(* The agentic code debugger of src/code.py: a six-node LangGraph workflow *)
(* (code_parser, bug_detector, bug_explainer, socratic_guide, refiner,     *)
(* planner) driven from a Streamlit page that keeps the current session    *)
(* and a session history in st.session_state.                              *)
(*                                                                         *)
(* Texts (code, prompts, responses) are sequences of tokens, so that       *)
(* f-string formatting is concatenation and str.strip() is computed.       *)
(***************************************************************************)
EXTENDS Integers, Sequences, FiniteSets, TLC

\* ------------------------------------------------------------------ bounds
\* workflow runs started in one browser session
MaxRuns == 2
\* a transient backend failure (network, quota) hits one of the first
\* MaxOutageCall backend calls of the session, or none
MaxOutageCall == 8

\* --------------------------------------------------------------- constants
SliderMin == 1
SliderMax == 5
DefaultMaxIterations == 3
\* display_message(agent, content, iteration=None): None is written -1
NoIteration == -1

END == "__end__"

\* the four sample buttons
DivisionError == <<"divide_numbers">>
TypeError == <<"get_max">>
VariableError == <<"calculate_sum">>
ScopeError == <<"process_data">>
SampleCodes == {DivisionError, TypeError, VariableError, ScopeError}

\* what the user may have in the text area when the form is submitted
TypedTexts == {<< >>, <<" ", "\n">>, <<"x", "=", "1">>}

\* values of the GOOGLE_API_KEY environment variable: unset (or empty), set
NoKey == ""
ApiKeys == {"key"}

Nodes == {"code_parser", "bug_detector", "bug_explainer", "socratic_guide",
          "refiner", "planner"}

\* ----------------------------------------------------------------- texts
Whitespace == {" ", "\n", "\t"}

RECURSIVE lstrip(_)
lstrip(s) == IF s # << >> /\ Head(s) \in Whitespace THEN lstrip(Tail(s)) ELSE s

RECURSIVE rstrip(_)
rstrip(s) ==
    IF s # << >> /\ s[Len(s)] \in Whitespace
    THEN rstrip(SubSeq(s, 1, Len(s) - 1))
    ELSE s

strip(s) == rstrip(lstrip(s))

Last(s) == s[Len(s)]

AIMessage(content) == [type |-> "ai", content |-> content]
HumanMessage(content) == [type |-> "human", content |-> content]

\* ---------------------------------------------------------------- backend
\* model.generate_content(prompt).text: the backend is a function of the
\* prompt; the free one (the response names its whole prompt) stands for all
generate_content(prompt) == <<"gemini">> \o prompt

ErrorText == <<"Error calling Gemini API">>

\* call_gemini: every exception of the backend call becomes a returned text
call_gemini(prompt, outcome) ==
    IF outcome = "raise" THEN ErrorText ELSE generate_content(prompt)

\* ----------------------------------------------------------------- agents
code_parser_agent(state, outcome) ==
    LET prompt == <<"You are a senior Python code parser">> \o state.code
                    \o <<"Provide a concise analysis">>
    IN [messages |-> <<AIMessage(call_gemini(prompt, outcome))>>]

bug_detection_agent(state, outcome) ==
    LET last_message == Last(state.messages).content
        prompt == <<"You are an expert bug hunter">> \o state.code
                    \o <<"Previous analysis">> \o last_message
                    \o <<"Identify potential bugs">>
    IN [messages |-> <<AIMessage(call_gemini(prompt, outcome))>>]

bug_explainer_agent(state, outcome) ==
    LET last_message == Last(state.messages).content
        prompt == <<"Explain the bug in simple terms">> \o last_message
                    \o <<"Provide">>
    IN [messages |-> <<AIMessage(call_gemini(prompt, outcome))>>]

socratic_guide_agent(state, outcome) ==
    LET last_message == Last(state.messages).content
        prompt == <<"Ask a Socratic question">> \o last_message
                    \o <<"Formulate a question">>
    IN [messages |-> <<AIMessage(call_gemini(prompt, outcome))>>]

refiner_agent(state, outcome) ==
    LET last_message == Last(state.messages).content
        prompt == <<"Provide a specific hint">> \o last_message
                    \o <<"Offer">>
    IN [messages |-> <<AIMessage(call_gemini(prompt, outcome))>>]

MaxReached == <<"Maximum debugging cycles reached. Analysis complete.">>
PlanningNext == <<"Planning next debugging cycle...">>

\* mutant: the counter advances by two
planner_agent_skips(state) ==
    LET new_iteration == state.iteration + 2
        content == IF new_iteration >= state.max_iterations
                   THEN MaxReached
                   ELSE PlanningNext
    IN [messages |-> <<HumanMessage(content)>>, iteration |-> new_iteration]

\* mutant: the status text is decided on the count before the increment
planner_agent_stale_text(state) ==
    LET new_iteration == state.iteration + 1
        content == IF state.iteration >= state.max_iterations
                   THEN MaxReached
                   ELSE PlanningNext
    IN [messages |-> <<HumanMessage(content)>>, iteration |-> new_iteration]

planner_agent(state) ==
    LET new_iteration == state.iteration + 1
        content == IF new_iteration >= state.max_iterations
                   THEN MaxReached
                   ELSE PlanningNext
    IN [messages |-> <<HumanMessage(content)>>, iteration |-> new_iteration]

\* --------------------------------------------------------------- workflow
\* mutant: bug_explainer is wired past socratic_guide
Edge_skips_guide ==
    [code_parser |-> "bug_detector",
     bug_detector |-> "bug_explainer",
     bug_explainer |-> "refiner",
     socratic_guide |-> "refiner",
     refiner |-> "planner"]

\* workflow.add_edge(...)
Edge ==
    [code_parser |-> "bug_detector",
     bug_detector |-> "bug_explainer",
     bug_explainer |-> "socratic_guide",
     socratic_guide |-> "refiner",
     refiner |-> "planner"]

\* mutant: > where the code has >=
should_continue_off_by_one(state) ==
    IF state.iteration > state.max_iterations THEN END ELSE "code_parser"

should_continue(state) ==
    IF state.iteration >= state.max_iterations THEN END ELSE "code_parser"

\* AgentState: messages is reduced with a + b, every other key is replaced
reduce(state, update) ==
    [state EXCEPT
        !.messages = @ \o update.messages,
        !.iteration = IF "iteration" \in DOMAIN update
                      THEN update.iteration ELSE @]

\* mutant: > where the code has >=
FinalStatus_off_by_one(current, max) ==
    IF current > max THEN "Maximum debugging cycles completed"
    ELSE "Debugging completed successfully"

FinalStatus(current, max) ==
    IF current >= max THEN "Maximum debugging cycles completed"
    ELSE "Debugging completed successfully"

\* ------------------------------------------------------------------ state
VARIABLES
    session_history,    \* st.session_state.session_history
    current_session,    \* st.session_state.current_session
    max_iterations,     \* st.session_state.max_iterations
    iteration_count,    \* st.session_state.iteration_count
    api_key,            \* os.environ["GOOGLE_API_KEY"]
    pc,                 \* "idle", "submitted", the node about to run, END, "except"
    code,               \* main's local code: the text area of the submitted form
    initial_state,      \* main's local initial_state
    state,              \* the workflow's own state (its channels)
    current_iteration,  \* main's local current_iteration
    chat,               \* the display_message calls of this script run
    screen,             \* st.error / final status / figures of this script run
    outage,             \* backend calls left until the transient failure (0: none)
    first_failure,      \* where the first backend call of this run failed
    runs,               \* workflow runs started
    ref_run             \* a remembered earlier run (at most one)

vars == <<session_history, current_session, max_iterations, iteration_count,
          api_key, pc, code, initial_state, state, current_iteration, chat,
          screen, outage, first_failure, runs, ref_run>>

\* initial_state = AgentState(code=..., messages=[], iteration=0, ...)
\* mutant: the run resumes from st.session_state.iteration_count
AgentState_stale_iteration(text, max) ==
    [code |-> text, messages |-> << >>, iteration |-> iteration_count,
     max_iterations |-> max]

AgentState(text, max) ==
    [code |-> text, messages |-> << >>, iteration |-> 0,
     max_iterations |-> max]

NoScreen ==
    [error |-> "none", final_status |-> "none", cycles_completed |-> 0,
     total_recommendations |-> 0]

NoState ==
    [code |-> << >>, messages |-> << >>, iteration |-> 0, max_iterations |-> 0]

Init ==
    /\ session_history = << >>
    /\ current_session = [code |-> << >>, messages |-> << >>]
    /\ max_iterations = DefaultMaxIterations
    /\ iteration_count = 0
    /\ api_key \in {NoKey} \cup ApiKeys
    /\ pc = "idle"
    /\ code = << >>
    /\ initial_state = NoState
    /\ state = NoState
    /\ current_iteration = 0
    /\ chat = << >>
    /\ screen = NoScreen
    /\ outage \in 0..MaxOutageCall
    /\ first_failure = << >>
    /\ runs = 0
    /\ ref_run = << >>

\* every interaction reruns the script: what the last run drew is gone
\* (the session is followed until its last run has been started)
Rerun ==
    /\ runs < MaxRuns
    /\ chat' = << >>
    /\ screen' = NoScreen

\* ------------------------------------------------------------- UI actions
ApiKeyInput(k) ==
    /\ pc = "idle"
    /\ k # api_key
    /\ api_key' = k
    /\ Rerun
    /\ UNCHANGED <<session_history, current_session, max_iterations,
                   iteration_count, pc, code, initial_state, state,
                   current_iteration, outage, first_failure, runs, ref_run>>

Slider(n) ==
    /\ pc = "idle"
    /\ n # max_iterations
    /\ max_iterations' = n
    /\ Rerun
    /\ UNCHANGED <<session_history, current_session, iteration_count, api_key,
                   pc, code, initial_state, state, current_iteration, outage,
                   first_failure, runs, ref_run>>

SampleButton(c) ==
    /\ pc = "idle"
    /\ current_session' = [current_session EXCEPT !.code = c]
    /\ Rerun
    /\ UNCHANGED <<session_history, max_iterations, iteration_count, api_key,
                   pc, code, initial_state, state, current_iteration, outage,
                   first_failure, runs, ref_run>>

SelectSession(i) ==
    /\ pc = "idle"
    /\ i \in 1..Len(session_history)
    /\ current_session' = session_history[i]
    /\ Rerun
    /\ UNCHANGED <<session_history, max_iterations, iteration_count, api_key,
                   pc, code, initial_state, state, current_iteration, outage,
                   first_failure, runs, ref_run>>

\* the form code_debugger is submitted with `typed` in its text area
FormSubmit(typed) ==
    /\ pc = "idle"
    /\ code' = typed
    /\ pc' = "submitted"
    /\ Rerun
    /\ UNCHANGED <<session_history, current_session, max_iterations,
                   iteration_count, api_key, initial_state, state,
                   current_iteration, outage, first_failure, runs, ref_run>>

InHistory(s) == \E i \in 1..Len(session_history) : session_history[i] = s

system_messages(max) ==
    <<[agent |-> "system",
       content |-> <<"Starting Level 5 Agentic Debugging System...">>,
       iteration |-> NoIteration],
      [agent |-> "system",
       content |-> <<"Max Debugging Cycles", ToString(max)>>,
       iteration |-> NoIteration]>>

\* "Handle form submission" up to the start of the stream; code is not read
\* again, and the script ends here when the guard or the key check fails
handle_submission ==
    /\ pc = "submitted"
    /\ code' = << >>
    /\ IF strip(current_session.code) = << >>
       THEN /\ pc' = "idle"
            /\ UNCHANGED <<session_history, initial_state, state, chat,
                           screen, runs>>
       ELSE IF api_key = NoKey
       THEN /\ pc' = "idle"
            /\ screen' = [screen EXCEPT !.error = "api key"]
            /\ UNCHANGED <<session_history, initial_state, state, chat, runs>>
       ELSE /\ session_history' =
                    IF InHistory(current_session) THEN session_history
                    ELSE Append(session_history, current_session)
            /\ initial_state' = AgentState(current_session.code, max_iterations)
            /\ state' = initial_state'
            /\ chat' = system_messages(max_iterations)
            /\ runs' = runs + 1
            /\ pc' = "code_parser"
            /\ UNCHANGED screen
    /\ UNCHANGED <<current_session, max_iterations, iteration_count, api_key,
                   current_iteration, outage, first_failure, ref_run>>

\* ------------------------------------------------------- the workflow run
\* what the backend call made now does
BackendOutcome == IF outage = 1 THEN "raise" ELSE "ok"

StepOutputs(c) == SelectSeq(c, LAMBDA m : m.agent # "system")

\* one item of agentic_workflow.stream and the body of main's loop for it
Stream(node, update, next) ==
    /\ state' = reduce(state, update)
    /\ current_iteration' =
            IF node = "planner" THEN update.iteration ELSE current_iteration
    /\ iteration_count' =
            IF node = "planner" THEN update.iteration ELSE iteration_count
    /\ chat' = Append(chat, [agent |-> node,
                             content |-> Last(update.messages).content,
                             iteration |-> current_iteration'])
    /\ pc' = next

Backend(node) ==
    /\ outage' = IF outage > 0 THEN outage - 1 ELSE 0
    /\ first_failure' =
            IF BackendOutcome = "raise" /\ first_failure = << >>
            THEN <<[node |-> node, cycle |-> state.iteration + 1,
                    kept |-> Len(StepOutputs(chat))]>>
            ELSE first_failure

RunUnchanged ==
    UNCHANGED <<session_history, current_session, max_iterations, api_key,
                code, initial_state, screen, runs, ref_run>>

code_parser ==
    /\ pc = "code_parser"
    /\ Stream("code_parser", code_parser_agent(state, BackendOutcome),
              Edge["code_parser"])
    /\ Backend("code_parser")
    /\ RunUnchanged

bug_detector ==
    /\ pc = "bug_detector"
    /\ Stream("bug_detector", bug_detection_agent(state, BackendOutcome),
              Edge["bug_detector"])
    /\ Backend("bug_detector")
    /\ RunUnchanged

bug_explainer ==
    /\ pc = "bug_explainer"
    /\ Stream("bug_explainer", bug_explainer_agent(state, BackendOutcome),
              Edge["bug_explainer"])
    /\ Backend("bug_explainer")
    /\ RunUnchanged

socratic_guide ==
    /\ pc = "socratic_guide"
    /\ Stream("socratic_guide", socratic_guide_agent(state, BackendOutcome),
              Edge["socratic_guide"])
    /\ Backend("socratic_guide")
    /\ RunUnchanged

refiner ==
    /\ pc = "refiner"
    /\ Stream("refiner", refiner_agent(state, BackendOutcome), Edge["refiner"])
    /\ Backend("refiner")
    /\ RunUnchanged

planner ==
    /\ pc = "planner"
    /\ LET update == planner_agent(state)
       IN Stream("planner", update, should_continue(reduce(state, update)))
    /\ UNCHANGED <<outage, first_failure>>
    /\ RunUnchanged

\* an exception leaves the stream loop (except Exception as e)
StreamRaises ==
    /\ pc \in Nodes
    /\ pc' = "except"
    /\ screen' = [screen EXCEPT !.error = "workflow"]
    /\ UNCHANGED <<session_history, current_session, max_iterations,
                   iteration_count, api_key, code, initial_state, state,
                   current_iteration, chat, outage, first_failure, runs,
                   ref_run>>

\* the run as a later run can be compared with it
RunRecord ==
    [code |-> state.code, max_iterations |-> state.max_iterations,
     outputs |-> StepOutputs(chat)]

\* "Save session state" .. the end of main, where main's locals end
save_session ==
    /\ pc \in {END, "except"}
    /\ LET saved == [current_session EXCEPT
                        !.messages = initial_state.messages]
           others == SelectSeq(session_history,
                               LAMBDA s : s.code # saved.code)
       IN /\ current_session' = saved
          /\ session_history' =
                Append(Append(others, saved),
                       [code |-> saved.code, messages |-> saved.messages])
          /\ screen' =
                [error |-> screen.error,
                 final_status |-> FinalStatus(current_iteration, max_iterations),
                 cycles_completed |-> current_iteration,
                 total_recommendations |-> Len(saved.messages)]
    /\ \/ UNCHANGED ref_run
       \/ /\ ref_run = << >>
          /\ pc = END
          /\ first_failure = << >>
          /\ ref_run' = <<RunRecord>>
    /\ pc' = "idle"
    /\ initial_state' = NoState
    /\ state' = NoState
    /\ current_iteration' = 0
    /\ first_failure' = << >>
    /\ UNCHANGED <<max_iterations, iteration_count, api_key, code, chat,
                   outage, runs>>

Next ==
    \/ \E k \in ApiKeys : ApiKeyInput(k)
    \/ \E n \in SliderMin..SliderMax : Slider(n)
    \/ \E c \in SampleCodes : SampleButton(c)
    \/ \E i \in 1..Len(session_history) : SelectSession(i)
    \/ \E typed \in TypedTexts \cup {current_session.code} : FormSubmit(typed)
    \/ handle_submission
    \/ code_parser
    \/ bug_detector
    \/ bug_explainer
    \/ socratic_guide
    \/ refiner
    \/ planner
    \/ StreamRaises
    \/ save_session

Spec == Init /\ [][Next]_vars

\* ============================================================== properties
Order == <<"code_parser", "bug_detector", "bug_explainer", "socratic_guide",
           "refiner", "planner">>

Outs == StepOutputs(chat)

Streaming == pc \in Nodes \cup {END}

PlannerOutputs(outs) == {i \in 1..Len(outs) : outs[i].agent = "planner"}

LabelledTexts(outs) ==
    [i \in 1..Len(outs) |-> <<outs[i].agent, outs[i].content>>]

Blank(text) == \A i \in 1..Len(text) : text[i] \in Whitespace

C2_FailureEndsRun ==
    (pc \in Nodes \cup {END, "except"} /\ first_failure # << >>) =>
        LET f == first_failure[1]
            k == CHOOSE j \in 1..6 : Order[j] = f.node
        IN /\ pc \notin Nodes
           /\ screen.error = "workflow"
           /\ f.kept = 6 * (f.cycle - 1) + (k - 1)
           /\ Len(Outs) = f.kept

\* C3: iteration stays within 0..max_iterations, and within a run it changes
\* only at the planner step, by exactly one.
C3_IterationBounded ==
    /\ [](state.iteration \in 0..state.max_iterations)
    /\ [][(pc \in Nodes /\ state'.iteration # state.iteration) =>
            (pc = "planner" /\ state'.iteration = state.iteration + 1)]_vars

C3_Witness ==
    /\ pc = END
    /\ state.max_iterations = SliderMax
    /\ state.iteration = SliderMax

\* C4 (as claimed): a submitted text that is empty or whitespace only starts
\* no step, leaves the session history alone and is reported as an empty
\* input; a submitted non-blank text is the text the run analyses.
C4_BlankSubmissionRejected ==
    [][pc = "submitted" =>
        IF Blank(code)
        THEN /\ pc' = "idle"
             /\ session_history' = session_history
             /\ screen'.error = "empty input"
        ELSE pc' = "code_parser" => state'.code = code]_vars

\* C5: every node but planner hands over to its one fixed successor, whatever
\* the data; planner alone branches, to code_parser or to END; the output a
\* step emits carries that step's label; from END no step executes.
C5_FixedOrder ==
    [][/\ \A j \in 1..5 :
            (pc = Order[j] /\ pc' # "except") =>
                (pc' = Order[j + 1] /\ Len(Outs') = Len(Outs) + 1
                    /\ Last(Outs').agent = Order[j])
       /\ (pc = "planner" /\ pc' # "except") =>
                (pc' \in {"code_parser", END} /\ Len(Outs') = Len(Outs) + 1
                    /\ Last(Outs').agent = "planner")
       /\ pc = END => (pc' = "idle" /\ Outs' = Outs)]_vars

C5_Witness ==
    /\ pc = END
    /\ \E i \in 1..Len(Outs) - 1 :
            Outs[i].agent = "planner" /\ Outs[i + 1].agent = "code_parser"

\* C6 (as claimed): between runs the session history holds at most one record
\* per code text, and the record of the code last run is the one that run
\* wrote.
C6_OneRecordPerCode ==
    pc = "idle" =>
        /\ \A i, j \in 1..Len(session_history) :
                session_history[i].code = session_history[j].code => i = j
        /\ screen.final_status # "none" =>
                Last(session_history) = current_session

\* C7 (as claimed): after a run the stored record (current_session and its
\* copy at the end of the history) holds in messages the texts of the outputs
\* the run emitted, in order.
C7_RecordHoldsOutputs ==
    (pc = "idle" /\ screen.final_status # "none") =>
        LET outs == Outs
            Holds(record) ==
                /\ Len(record.messages) = Len(outs)
                /\ \A i \in 1..Len(outs) :
                        record.messages[i].content = outs[i].content
        IN /\ Holds(current_session)
           /\ Holds(Last(session_history))

\* C8: a run that ends without a backend failure emits the same sequence of
\* (step label, text) outputs as any earlier such run of the same code text
\* under the same max_iterations (the backend being a function of the prompt).
C8_Deterministic ==
    (pc = END /\ first_failure = << >> /\ ref_run # << >>) =>
        LET ref == ref_run[1]
        IN (ref.code = state.code /\ ref.max_iterations = state.max_iterations)
                => LabelledTexts(ref.outputs) = LabelledTexts(Outs)

C8_Witness ==
    /\ pc = END
    /\ first_failure = << >>
    /\ ref_run # << >>
    /\ ref_run[1].code = state.code
    /\ ref_run[1].max_iterations = state.max_iterations
    /\ state.max_iterations > 1
    /\ runs = 2
    /\ iteration_count = state.max_iterations

\* C9: at the planner step the status text and the branch agree: the text is
\* the "maximum reached" one exactly when the incremented count has reached
\* max_iterations, which is exactly when the workflow goes to END; it is the
\* "planning next" one exactly when the workflow restarts at code_parser.
C9_TextMatchesBranch ==
    [][(pc = "planner" /\ pc' # "except") =>
        LET text == Last(chat').content
            reached == state.iteration + 1 >= state.max_iterations
        IN /\ text \in {MaxReached, PlanningNext}
           /\ (text = MaxReached) <=> reached
           /\ (text = MaxReached) <=> (pc' = END)
           /\ (text = PlanningNext) <=> (pc' = "code_parser")]_vars

C9_Witness ==
    /\ pc = END
    /\ Last(chat).content = MaxReached
    /\ \E i \in 1..Len(chat) : chat[i].content = PlanningNext

\* C10: the final status is "Maximum debugging cycles completed" exactly when
\* the planner output of pass max_iterations was emitted; otherwise, also
\* after an exception, it is "Debugging completed successfully"; the cycles
\* figure is the number of planner outputs seen.
C10_FinalStatus ==
    (pc = "idle" /\ screen.final_status # "none") =>
        LET passes == Cardinality(PlannerOutputs(Outs))
        IN /\ screen.final_status \in
                {"Maximum debugging cycles completed",
                 "Debugging completed successfully"}
           /\ (screen.final_status = "Maximum debugging cycles completed")
                <=> (passes = max_iterations)
           /\ passes <= max_iterations
           /\ screen.cycles_completed = passes

C10_Witness ==
    /\ pc = "idle"
    /\ screen.error = "workflow"
    /\ screen.final_status = "Debugging completed successfully"
    /\ screen.cycles_completed = 1
    /\ max_iterations = 2

====
